---------------------------- MODULE Spec2Model ----------------------------
(***************************************************************************)
(* A model of kwgen/utils.py: the cleaning-and-tokenization pipeline       *)
(* (clean_and_tokenize_texts), the output orderer (_order_by_pos), the     *)
(* interactive ignore-word prompt (prompt_for_ignore_words) and the data   *)
(* loader (load_data).                                                     *)
(*                                                                         *)
(* Texts are modelled at the level of words: a raw response is the         *)
(* sequence of its whitespace-separated raw words, standing for the words  *)
(* joined by single spaces.  Python indexes are kept 0-based; a Python     *)
(* list l is a TLA+ sequence and l[i] is written l[i + 1].                 *)
(***************************************************************************)
EXTENDS Integers, Sequences, FiniteSets, TLC

VARIABLES
    pc,                      \* position in the function being run
    exc,                     \* the exception that reached the caller, or "none"
    exc_at,                  \* the step that raised it
    \* ---- clean_and_tokenize_texts: arguments ----
    responses, input_language, min_freq, min_word_len, sample_size,
    \* ---- clean_and_tokenize_texts: locals ----
    tokenized_texts,         \* line 240-248
    origin,                  \* history: original index of each kept tokenized text
    bigrams,                 \* the Phrases model of line 252 (its detected pairs)
    tokens_with_bigrams,     \* line 251-261
    nlp,                     \* "None" or "model" (line 283-291)
    lemmatized_tokens,       \* line 286/292/312/319
    lemmatized_bound,        \* whether the local lemmatized_tokens was ever assigned
    token_frequencies,       \* line 322-325
    min_len_freq_tokens,     \* line 332-340
    non_empty_token_indexes, \* line 343-345
    text_corpus, clean_texts, selected_idxs,
    \* ---- _order_by_pos ----
    outputs,                 \* the keywords, each the sequence of its words
    output_language,
    nlp_outputs,             \* line 534
    ordered_outputs,         \* line 538-545
    outputs_dict,            \* line 547-566: the <<key, list>> pairs in key order
    \* ---- prompt_for_ignore_words ----
    ignore_words_arg,        \* the argument: "None" or a list of words
    ignore_words, words_added, more_words,
    answers,                 \* history: the answers given to the y/n question
    entered,                 \* history: the line typed after "y"
    printed,                 \* history: the messages printed
    \* ---- load_data ----
    data,                    \* the argument
    df_bound,                \* whether the local df_responses was assigned
    df_responses,            \* the table (its columns), or the str bound to it
    column_names, extra_index,
    col_index                \* position of the loop of line 89

tokArgs == <<responses, input_language, min_freq, min_word_len, sample_size>>
tokLocals == <<tokenized_texts, origin, bigrams, tokens_with_bigrams, nlp,
               lemmatized_tokens, lemmatized_bound, token_frequencies,
               min_len_freq_tokens, non_empty_token_indexes,
               text_corpus, clean_texts, selected_idxs>>
orderVars == <<outputs, output_language, nlp_outputs, ordered_outputs, outputs_dict>>
promptVars == <<ignore_words_arg, ignore_words, words_added, more_words,
                answers, entered, printed>>
loadVars == <<data, df_bound, df_responses, column_names, extra_index, col_index>>
vars == <<pc, exc, exc_at, tokArgs, tokLocals, orderVars, promptVars, loadVars>>

-----------------------------------------------------------------------------
(* Bounds of the model *)

\* the largest number of responses in one call
MaxResp == 2

-----------------------------------------------------------------------------
(* Generic helpers *)

Range(s) == {s[i] : i \in 1..Len(s)}

\* [f(x) for x in s]
MapSeq(s, F(_)) == [i \in 1..Len(s) |-> F(s[i])]

-----------------------------------------------------------------------------
(* The vocabulary of the model and what the string library does on it *)

\* the raw words responses are made of
RawWords == {"The", "good", "movie", "movies", "wow!", "42"}

\* the responses a call may hold: the empty text, a text of a stopword and a
\* numeral, two texts with an adjacent pair, a text of one interjection
ResponsePool ==
    { <<>>, <<"The", "42">>, <<"good", "movie">>, <<"movies", "movie">>, <<"wow!">> }

\* str.translate(str.maketrans("", "", string.punctuation + ...)) on a raw word;
\* the raw words hold no "/", "-", "d'", emoji or run of spaces, on which the
\* other replacements of lines 195-228 act
RemovePunctuation(w) == IF w = "wow!" THEN "wow" ELSE w

\* str.lower()
Lower(w) ==
    CASE w = "The" -> "the"
      [] w = "Finnish" -> "finnish"
      [] OTHER -> w

\* str.isnumeric()
IsNumeric(w) == w = "42"

\* the words a token list can hold before bigrams are added
Unigrams == {Lower(RemovePunctuation(w)) : w \in RawWords}

\* Phrases joins the two words of a detected pair with its delimiter "_"
JoinBigram(a, b) == a \o "_" \o b

\* `"_" in token`: string.punctuation holds "_", so after line 222 no unigram
\* holds one: a token holds "_" exactly when Phrases joined it
HasUnderscore(token) ==
    \E a \in Unigrams, b \in Unigrams : token = JoinBigram(a, b)

-----------------------------------------------------------------------------
(* kwgen.languages and the language resources *)

\* languages.lem_abbr_dict(): language name -> spaCy model code
lem_abbr_dict == [l \in {"english", "french", "german"} |->
                    CASE l = "english" -> "en" [] l = "french" -> "fr" [] OTHER -> "de"]

\* languages.stem_abbr_dict(): language name -> abbreviation
stem_abbr_dict == [l \in {"arabic", "finnish", "hungarian", "swedish"} |->
                    CASE l = "arabic" -> "ar" [] l = "finnish" -> "fi"
                      [] l = "hungarian" -> "hu" [] OTHER -> "sv"]

\* languages.sw_abbr_dict(): language name -> stopwordsiso code
sw_abbr_dict == [l \in {"latin"} |-> "la"]

\* the language names a caller passes
LanguageNames == {"english", "arabic", "fi", "sv", "klingon"}

\* lines 186-190: the resolved language
ResolveLanguage(name) ==
    IF name \in DOMAIN lem_abbr_dict THEN lem_abbr_dict[name] ELSE name

\* stopwordsiso.stopwords(code), cut to the vocabulary: only the English set
\* holds one of the model's words; an unknown code gives the empty set
stopwords(code) ==
    CASE code = "en" -> {"the"}
      [] code \in {"fr", "de", "ar", "fi", "hu", "sv", "la"} -> {"__other__"}
      [] OTHER -> {}

\* lines 231-238: the stopword set of the resolved language
StopWords(lang) ==
    IF stopwords(lang) # {} THEN stopwords(lang)
    ELSE IF lang \in DOMAIN stem_abbr_dict THEN stopwords(stem_abbr_dict[lang])
    ELSE IF lang \in DOMAIN sw_abbr_dict THEN stopwords(sw_abbr_dict[lang])
    ELSE {}

\* SnowballStemmer.languages (nltk), the names the stemmer accepts
SnowballLanguages ==
    {"arabic", "danish", "dutch", "english", "finnish", "french", "german",
     "hungarian", "italian", "norwegian", "porter", "portuguese", "romanian",
     "russian", "spanish", "swedish"}

\* the spaCy model codes: spacy.load of any other name raises OSError
SpacyCodes == {lem_abbr_dict[l] : l \in DOMAIN lem_abbr_dict}

-----------------------------------------------------------------------------
(* clean_and_tokenize_texts: tokenization, lines 195-248 *)

\* lines 195-228 on one response: the punctuation of every word removed; a
\* word that was only punctuation leaves nothing for split() to return
NoPunctuation(r) ==
    SelectSeq(MapSeq(r, RemovePunctuation), LAMBDA w : w # "")

\* lines 241-246: the tokens of one text
TokensOf(text, stop_words) ==
    SelectSeq(MapSeq(text, Lower),
              LAMBDA word : word \notin stop_words /\ ~IsNumeric(word))

\* line 240-247: one token list per response, the empty ones included
AllTokenized(rs, lang) ==
    [i \in 1..Len(rs) |-> TokensOf(NoPunctuation(rs[i]), StopWords(lang))]

\* the 0-based positions of the non-empty lists of ts, ascending
RECURSIVE NonEmptyFrom(_, _)
NonEmptyFrom(ts, i) ==
    IF i >= Len(ts) THEN <<>>
    ELSE (IF ts[i + 1] # <<>> THEN <<i>> ELSE <<>>) \o NonEmptyFrom(ts, i + 1)

\* line 248: [t for t in tokenized_texts if t != []]
DropEmpty(ts) == SelectSeq(ts, LAMBDA t : t # <<>>)

TokenizedTexts(rs, lang) == DropEmpty(AllTokenized(rs, lang))

-----------------------------------------------------------------------------
(* clean_and_tokenize_texts: bigrams, lines 250-261 *)

\* the pairs of adjacent tokens of the corpus: what Phrases can score
AdjacentPairs(ts) ==
    UNION {{<<ts[i][j], ts[i][j + 1]>> : j \in 1..(Len(ts[i]) - 1)} : i \in 1..Len(ts)}

\* bigrams[sentence] (gensim Phrases.__getitem__): a left-to-right scan that
\* joins a detected pair into one token and goes on after it
RECURSIVE ApplyPhrases(_, _)
ApplyPhrases(detected, sentence) ==
    IF sentence = <<>> THEN <<>>
    ELSE IF Len(sentence) >= 2 /\ <<sentence[1], sentence[2]>> \in detected
         THEN <<JoinBigram(sentence[1], sentence[2])>>
              \o ApplyPhrases(detected, Tail(Tail(sentence)))
         ELSE <<sentence[1]>> \o ApplyPhrases(detected, Tail(sentence))

\* line 259: tokenized_texts[i].insert(0, token)
\* (a variant that appends the token instead)
InsertBigramAtEnd(tokens, token) == Append(tokens, token)
InsertBigram(tokens, token) == <<token>> \o tokens

\* lines 256-259 on one token list: every token of the scan that holds "_" is
\* inserted in turn
RECURSIVE InsertBigrams(_, _)
InsertBigrams(tokens, scanned) ==
    IF scanned = <<>> THEN tokens
    ELSE InsertBigrams(IF HasUnderscore(Head(scanned))
                       THEN InsertBigram(tokens, Head(scanned))
                       ELSE tokens,
                       Tail(scanned))

\* lines 255-261
TokensWithBigrams(ts, detected) ==
    [i \in 1..Len(ts) |-> InsertBigrams(ts[i], ApplyPhrases(detected, ts[i]))]

-----------------------------------------------------------------------------
(* clean_and_tokenize_texts: lemmatizing and stemming, lines 264-319 *)

\* the words of a token that Phrases joined ("" when it is a unigram)
SecondWord(token) ==
    IF HasUnderscore(token)
    THEN CHOOSE b \in Unigrams : \E a \in Unigrams : token = JoinBigram(a, b)
    ELSE ""
FirstWord(token) ==
    IF HasUnderscore(token)
    THEN CHOOSE a \in Unigrams : \E b \in Unigrams : token = JoinBigram(a, b)
    ELSE token

\* token.pos_ of the spaCy model on the model's words
pos_(token) ==
    CASE HasUnderscore(token) -> "NOUN"
      [] token = "good" -> "ADJ"
      [] token \in {"movie", "movies"} -> "NOUN"
      [] token = "wow" -> "INTJ"
      [] token = "the" -> "DET"
      [] OTHER -> "X"

\* token.lemma_ of the spaCy model on the model's words
lemma_(token) == IF token = "movies" THEN "movie" ELSE token

\* line 268
allowed_pos_tags == {"NOUN", "PROPN", "ADJ", "ADV", "VERB"}

\* lines 272-277 on one token list
LemmedTokens(tokens) ==
    MapSeq(SelectSeq(tokens, LAMBDA t : pos_(t) \in allowed_pos_tags), lemma_)

\* lines 264-281
lemmatize(tokens) == MapSeq(tokens, LemmedTokens)

\* SnowballStemmer.stem on the model's words: the suffix of the last word goes
StemWord(w) == IF w \in {"movie", "movies"} THEN "movi" ELSE w
stem(t) ==
    IF HasUnderscore(t) THEN JoinBigram(FirstWord(t), StemWord(SecondWord(t)))
    ELSE StemWord(t)

\* lines 298-308: the name the stemmer is built with, "" when there is none
StemmerName(lang) ==
    CASE lang \in SnowballLanguages -> lang
      [] lang = "ar" -> "arabic"
      [] lang = "fi" -> "finish"
      [] lang = "hu" -> "hungarian"
      [] lang = "sv" -> "swedish"
      [] OTHER -> ""

\* lines 312-315
StemmedTokens(tokens) == MapSeq(tokens, LAMBDA ts : MapSeq(ts, stem))

-----------------------------------------------------------------------------
(* clean_and_tokenize_texts: frequency and length filter, lines 321-340 *)

\* a Python argument that is None, a bool or an int
PyNone == [py |-> "None", n |-> 0]
PyFalse == [py |-> "bool", n |-> 0]
PyInt(k) == [py |-> "int", n |-> k]

\* lines 327-330: `v == None or v == False` (0 == False in Python) gives 0
OrZero(v) == IF v.py = "None" \/ v.n = 0 THEN 0 ELSE v.n

\* defaultdict(int) lookup
Frequency(freq, t) == IF t \in DOMAIN freq THEN freq[t] ELSE 0

\* line 324: what one response adds to the table, one per distinct token
\* (a variant that counts every occurrence)
ResponseCountsRaw(tokens) ==
    [t \in Range(tokens) |-> Cardinality({i \in 1..Len(tokens) : tokens[i] = t})]
ResponseCounts(tokens) == [t \in Range(tokens) |-> 1]

\* lines 322-325
RECURSIVE TokenFrequencies(_, _)
TokenFrequencies(freq, lemmatized) ==
    IF lemmatized = <<>> THEN freq
    ELSE LET add == ResponseCounts(Head(lemmatized))
         IN  TokenFrequencies(
                 [t \in DOMAIN freq \cup DOMAIN add |->
                     Frequency(freq, t) + Frequency(add, t)],
                 Tail(lemmatized))

\* lines 332-340
MinLenFreqTokens(lemmatized, freq, mwl, mf) ==
    [i \in 1..Len(lemmatized) |->
        SelectSeq(lemmatized[i],
                  LAMBDA t : Len(t) >= mwl /\ Frequency(freq, t) >= mf)]

-----------------------------------------------------------------------------
(* clean_and_tokenize_texts: selection and sampling, lines 342-363 *)

\* lines 343-345
\* (a variant whose range starts at 1)
NonEmptyTokenIndexesFromOne(mlf) == NonEmptyFrom(mlf, 1)
NonEmptyTokenIndexes(mlf) == NonEmptyFrom(mlf, 0)

\* _clean_text_strings, lines 142-155, on a text of at most two of the model's
\* raw words: lower() is the only step that changes such a text
_clean_text_strings(s) == MapSeq(s, Lower)

\* line 346
TextCorpus(mlf, idxs) == [k \in 1..Len(idxs) |-> mlf[idxs[k] + 1]]

\* line 347
CleanTexts(rs, idxs) == [k \in 1..Len(idxs) |-> _clean_text_strings(rs[idxs[k] + 1])]

\* a sample fraction is the pair <<numerator, denominator>>
SampleFractions == {<<1, 1>>, <<3, 4>>, <<3, 2>>}

\* line 354: k = int(sample_size * len(text_corpus))
\* (a variant that rounds the product, a half upwards)
SampleCountRounded(f, n) == (2 * f[1] * n + f[2]) \div (2 * f[2])
SampleCount(f, n) == (f[1] * n) \div f[2]

\* lines 360-361: [l[i] for i in selected_idxs]
Selected(l, idxs) == [k \in 1..Len(idxs) |-> l[idxs[k] + 1]]

\* line 361
\* (a variant that leaves the list as it was)
SelectedCleanTextsUnsampled(l, idxs) == l
SelectedCleanTexts(l, idxs) == Selected(l, idxs)

-----------------------------------------------------------------------------
(* clean_and_tokenize_texts: the call *)

Corpora == UNION {[1..n -> ResponsePool] : n \in 0..MaxResp}
MinFreqs == {PyNone, PyInt(0), PyInt(2)}
MinWordLens == {PyFalse, PyInt(0), PyInt(4)}

\* the variables of the functions that are not being run
IdleTok ==
    /\ responses = <<>>
    /\ input_language = ""
    /\ min_freq = PyNone
    /\ min_word_len = PyNone
    /\ sample_size = <<1, 1>>
    /\ tokenized_texts = <<>>
    /\ origin = <<>>
    /\ bigrams = {}
    /\ tokens_with_bigrams = <<>>
    /\ nlp = "None"
    /\ lemmatized_tokens = <<>>
    /\ lemmatized_bound = FALSE
    /\ token_frequencies = <<>>
    /\ min_len_freq_tokens = <<>>
    /\ non_empty_token_indexes = <<>>
    /\ text_corpus = <<>>
    /\ clean_texts = <<>>
    /\ selected_idxs = <<>>

IdleOrder ==
    /\ outputs = <<>>
    /\ output_language = ""
    /\ nlp_outputs = <<>>
    /\ ordered_outputs = <<>>
    /\ outputs_dict = <<>>

IdlePrompt ==
    /\ ignore_words_arg = [py |-> "None", list |-> <<>>]
    /\ ignore_words = <<>>
    /\ words_added = FALSE
    /\ more_words = "True"
    /\ answers = <<>>
    /\ entered = <<>>
    /\ printed = <<>>

IdleLoad ==
    /\ data = [type |-> "none", columns |-> <<>>, suffix |-> ""]
    /\ df_bound = FALSE
    /\ df_responses = [type |-> "none", columns |-> <<>>]
    /\ column_names = <<>>
    /\ extra_index = 0
    /\ col_index = 0

InitTok ==
    /\ IdleOrder /\ IdlePrompt /\ IdleLoad
    /\ pc = "tokenize"
    /\ exc = "none"
    /\ exc_at = "none"
    /\ responses \in Corpora
    /\ input_language \in {ResolveLanguage(Lower(name)) : name \in LanguageNames}
    /\ min_freq \in MinFreqs
    /\ min_word_len \in MinWordLens
    /\ sample_size \in SampleFractions
    /\ tokenized_texts = <<>>
    /\ origin = <<>>
    /\ bigrams = {}
    /\ tokens_with_bigrams = <<>>
    /\ nlp = "None"
    /\ lemmatized_tokens = <<>>
    /\ lemmatized_bound = FALSE
    /\ token_frequencies = <<>>
    /\ min_len_freq_tokens = <<>>
    /\ non_empty_token_indexes = <<>>
    /\ text_corpus = <<>>
    /\ clean_texts = <<>>
    /\ selected_idxs = <<>>

\* an exception leaves the function
Raise(e, at) ==
    /\ pc' = "raised"
    /\ exc' = e
    /\ exc_at' = at

\* lines 195-248
Tokenize ==
    /\ pc = "tokenize"
    /\ tokenized_texts' = TokenizedTexts(responses, input_language)
    /\ origin' = NonEmptyFrom(AllTokenized(responses, input_language), 0)
    /\ pc' = "bigrams"
    /\ UNCHANGED <<orderVars, promptVars, loadVars>>
    /\ UNCHANGED <<exc, exc_at, tokArgs, bigrams, tokens_with_bigrams, nlp,
                   lemmatized_tokens, lemmatized_bound, token_frequencies,
                   min_len_freq_tokens, non_empty_token_indexes,
                   text_corpus, clean_texts, selected_idxs>>

\* lines 250-261; which pairs Phrases(min_count=3, threshold=5.0) detects is
\* decided by the library's scores: any set of adjacent pairs of the corpus.
\* The lists of tokenized_texts are changed in place.
AddBigrams ==
    /\ pc = "bigrams"
    /\ \E detected \in SUBSET AdjacentPairs(tokenized_texts) :
          /\ bigrams' = detected
          /\ tokens_with_bigrams' = TokensWithBigrams(tokenized_texts, detected)
          /\ tokenized_texts' = TokensWithBigrams(tokenized_texts, detected)
    /\ pc' = "lemmatize"
    /\ UNCHANGED <<orderVars, promptVars, loadVars>>
    /\ UNCHANGED <<exc, exc_at, tokArgs, origin, nlp,
                   lemmatized_tokens, lemmatized_bound, token_frequencies,
                   min_len_freq_tokens, non_empty_token_indexes,
                   text_corpus, clean_texts, selected_idxs>>

tokAfterLemmatize == <<orderVars, promptVars, loadVars,
                       tokArgs, tokenized_texts, origin, bigrams,
                       tokens_with_bigrams, token_frequencies,
                       min_len_freq_tokens, non_empty_token_indexes,
                       text_corpus, clean_texts, selected_idxs>>

\* lines 283-288, spacy.load raises OSError: no model of that name is installed
FirstLoadFails ==
    /\ pc = "lemmatize"
    /\ pc' = "retry"
    /\ UNCHANGED <<exc, exc_at, nlp, lemmatized_tokens, lemmatized_bound,
                   tokAfterLemmatize>>

\* lines 283-288, the model loads and lemmatize returns
FirstLemmatize ==
    /\ pc = "lemmatize"
    /\ input_language \in SpacyCodes
    /\ nlp' = "model"
    /\ lemmatized_tokens' = lemmatize(tokens_with_bigrams)
    /\ lemmatized_bound' = TRUE
    /\ pc' = "fallback"
    /\ UNCHANGED <<exc, exc_at, tokAfterLemmatize>>

\* lines 283-288, the model loads and lemmatize raises: `except OSError`
\* catches an OSError and lets any other exception go to the caller
FirstLemmatizeRaises ==
    /\ pc = "lemmatize"
    /\ input_language \in SpacyCodes
    /\ nlp' = "model"
    /\ \E e \in {"OSError", "ValueError"} :
          IF e = "OSError"
          THEN pc' = "retry" /\ UNCHANGED <<exc, exc_at>>
          ELSE Raise(e, "lemmatize")
    /\ UNCHANGED <<lemmatized_tokens, lemmatized_bound, tokAfterLemmatize>>

\* lines 289-294, the download or the second spacy.load fails: `except: pass`
RetryLoadFails ==
    /\ pc = "retry"
    /\ pc' = "fallback"
    /\ UNCHANGED <<exc, exc_at, nlp, lemmatized_tokens, lemmatized_bound,
                   tokAfterLemmatize>>

\* lines 289-294, the model loads after the download and lemmatize returns
RetryLemmatize ==
    /\ pc = "retry"
    /\ input_language \in SpacyCodes
    /\ nlp' = "model"
    /\ lemmatized_tokens' = lemmatize(tokens_with_bigrams)
    /\ lemmatized_bound' = TRUE
    /\ pc' = "fallback"
    /\ UNCHANGED <<exc, exc_at, tokAfterLemmatize>>

\* lines 289-294, the model loads after the download and lemmatize raises:
\* `except: pass` swallows it, with nlp already assigned
RetryLemmatizeRaises ==
    /\ pc = "retry"
    /\ input_language \in SpacyCodes
    /\ nlp' = "model"
    /\ pc' = "fallback"
    /\ UNCHANGED <<exc, exc_at, lemmatized_tokens, lemmatized_bound,
                   tokAfterLemmatize>>

\* lines 296-319
StemOrPassthrough ==
    /\ pc = "fallback"
    /\ IF nlp = "None"
       THEN LET name == StemmerName(input_language)
            IN  IF name = ""
                THEN /\ lemmatized_tokens' = tokens_with_bigrams
                     /\ lemmatized_bound' = TRUE
                     /\ pc' = "filter"
                     /\ UNCHANGED <<exc, exc_at>>
                ELSE IF name \in SnowballLanguages
                THEN /\ lemmatized_tokens' = StemmedTokens(tokens_with_bigrams)
                     /\ lemmatized_bound' = TRUE
                     /\ pc' = "filter"
                     /\ UNCHANGED <<exc, exc_at>>
                ELSE \* SnowballStemmer(name) raises ValueError
                     /\ Raise("ValueError", "stemmer")
                     /\ UNCHANGED <<lemmatized_tokens, lemmatized_bound>>
       ELSE /\ pc' = "filter"
            /\ UNCHANGED <<exc, exc_at, lemmatized_tokens, lemmatized_bound>>
    /\ UNCHANGED <<nlp, tokAfterLemmatize>>

\* lines 321-340; reading a local that was never assigned raises
\* UnboundLocalError
FrequencyFilter ==
    /\ pc = "filter"
    /\ IF lemmatized_bound
       THEN /\ token_frequencies' = TokenFrequencies(<<>>, lemmatized_tokens)
            /\ min_len_freq_tokens' =
                  MinLenFreqTokens(lemmatized_tokens,
                                   TokenFrequencies(<<>>, lemmatized_tokens),
                                   OrZero(min_word_len), OrZero(min_freq))
            /\ pc' = "select"
            /\ UNCHANGED <<exc, exc_at>>
       ELSE /\ Raise("UnboundLocalError", "filter")
            /\ UNCHANGED <<token_frequencies, min_len_freq_tokens>>
    /\ UNCHANGED <<orderVars, promptVars, loadVars>>
    /\ UNCHANGED <<tokArgs, tokenized_texts, origin, bigrams, tokens_with_bigrams,
                   nlp, lemmatized_tokens, lemmatized_bound,
                   non_empty_token_indexes, text_corpus, clean_texts, selected_idxs>>

\* lines 342-347
SelectNonEmpty ==
    /\ pc = "select"
    /\ non_empty_token_indexes' = NonEmptyTokenIndexes(min_len_freq_tokens)
    /\ text_corpus' = TextCorpus(min_len_freq_tokens,
                                 NonEmptyTokenIndexes(min_len_freq_tokens))
    /\ clean_texts' = CleanTexts(responses, NonEmptyTokenIndexes(min_len_freq_tokens))
    /\ pc' = "sample"
    /\ UNCHANGED <<orderVars, promptVars, loadVars>>
    /\ UNCHANGED <<exc, exc_at, tokArgs, tokenized_texts, origin, bigrams,
                   tokens_with_bigrams, nlp, lemmatized_tokens, lemmatized_bound,
                   token_frequencies, min_len_freq_tokens, selected_idxs>>

\* lines 349-363; random.choices draws k indexes with replacement
Sample ==
    /\ pc = "sample"
    /\ IF sample_size[1] # sample_size[2]
       THEN selected_idxs' \in
               [1..SampleCount(sample_size, Len(text_corpus)) ->
                   0..(Len(text_corpus) - 1)]
       ELSE selected_idxs' = [k \in 1..Len(text_corpus) |-> k - 1]
    /\ text_corpus' = Selected(text_corpus, selected_idxs')
    /\ clean_texts' = SelectedCleanTexts(clean_texts, selected_idxs')
    /\ pc' = "done"
    /\ UNCHANGED <<orderVars, promptVars, loadVars>>
    /\ UNCHANGED <<exc, exc_at, tokArgs, tokenized_texts, origin, bigrams,
                   tokens_with_bigrams, nlp, lemmatized_tokens, lemmatized_bound,
                   token_frequencies, min_len_freq_tokens, non_empty_token_indexes>>

Next ==
    \/ Tokenize
    \/ AddBigrams
    \/ FirstLoadFails
    \/ FirstLemmatize
    \/ FirstLemmatizeRaises
    \/ RetryLoadFails
    \/ RetryLemmatize
    \/ RetryLemmatizeRaises
    \/ StemOrPassthrough
    \/ FrequencyFilter
    \/ SelectNonEmpty
    \/ Sample

Spec == InitTok /\ [][Next]_vars

-----------------------------------------------------------------------------
(* Properties of clean_and_tokenize_texts *)

\* the function returned its triple
Returned == pc = "done"

NoSampling == sample_size[1] = sample_size[2]

\* the 0-based index in responses of the response whose tokens are entry k
\* (1-based) of the returned text_corpus
SourceOf(k) == origin[non_empty_token_indexes[selected_idxs[k] + 1] + 1]

\* the indexes in responses of the responses that are in the result
Survivors == {SourceOf(k) : k \in 1..Len(selected_idxs)}

\* the tokens response i (0-based) has after stopword and numeral removal
PostStopwordTokens(i) == AllTokenized(responses, input_language)[i + 1]

\* C1: the three returned lists text_corpus, clean_texts and selected_idxs
\* have the same length, whatever the responses, the language, the minimums
\* and the sample fraction.
C1_SameLength ==
    Returned =>
        /\ Len(text_corpus) = Len(selected_idxs)
        /\ Len(clean_texts) = Len(selected_idxs)

\* a call that sampled more entries than survived the filter
C1_Witness ==
    /\ Returned
    /\ ~NoSampling
    /\ Len(selected_idxs) > Len(non_empty_token_indexes)
    /\ Len(text_corpus) = Len(selected_idxs)

\* C2: with sample fraction 1, clean_texts[k] is the normalizer's output of
\* the raw response the tokens of text_corpus[k] were derived from, also when
\* an earlier response became empty after stopword/numeral removal.
C2_CleanTextOfOwnResponse ==
    (Returned /\ NoSampling) =>
        \A k \in 1..Len(text_corpus) :
            clean_texts[k] = _clean_text_strings(responses[SourceOf(k) + 1])

\* C3 as stated: with min_freq = 0, min_word_len = 0 and sample fraction 1,
\* every response with a token left after stopword and numeral removal is in
\* the result, on every branch of the lemmatize / stem / passthrough chain.
C3_EveryTokenizedResponseSurvives ==
    (Returned /\ NoSampling /\ min_freq = PyInt(0) /\ min_word_len = PyInt(0)) =>
        \A i \in 0..(Len(responses) - 1) :
            PostStopwordTokens(i) # <<>> => i \in Survivors

\* the tokens (bigrams included) of response i (0-based) that entered the
\* lemmatize / stem / passthrough chain
ChainTokens(i) ==
    LET p == CHOOSE q \in 1..Len(origin) : origin[q] = i
    IN  tokens_with_bigrams[p]

\* C3 amended: with min_freq = 0, min_word_len = 0 and sample fraction 1, a
\* response with a token left after stopword and numeral removal is in the
\* result on the stemming and passthrough branches, and on the lemmatizer
\* branch exactly when one of its tokens is tagged NOUN, PROPN, ADJ, ADV or
\* VERB.
C3_SurvivesUnlessNoAllowedTag ==
    (Returned /\ NoSampling /\ min_freq = PyInt(0) /\ min_word_len = PyInt(0)) =>
        \A i \in 0..(Len(responses) - 1) :
            PostStopwordTokens(i) # <<>> =>
                (i \in Survivors <=>
                    \/ nlp = "None"
                    \/ \E t \in Range(ChainTokens(i)) : pos_(t) \in allowed_pos_tags)

\* the lemmatizer branch dropped a response that had tokens and kept another
C3_Witness ==
    /\ Returned /\ NoSampling /\ min_freq = PyInt(0) /\ min_word_len = PyInt(0)
    /\ nlp = "model"
    /\ \E i, j \in 0..(Len(responses) - 1) :
          /\ PostStopwordTokens(i) # <<>> /\ i \notin Survivors
          /\ PostStopwordTokens(j) # <<>> /\ j \in Survivors

\* C4: the lemmatizer load / download-retry / lemmatize path never raises to
\* the caller, and after any failure in it the token sequences the frequency
\* filter reads are defined.
C4_LemmatizerPathNeverRaises ==
    /\ ~(pc = "raised" /\ exc_at = "lemmatize")
    /\ pc = "filter" => lemmatized_bound

\* Python's round(num * n / den): to the nearest integer, a half to the even one
PyRound(f, n) ==
    LET q == (f[1] * n) \div f[2]
        r == (f[1] * n) % f[2]
    IN  IF 2 * r < f[2] THEN q
        ELSE IF 2 * r > f[2] THEN q + 1
        ELSE IF q % 2 = 0 THEN q ELSE q + 1

\* C5 as stated: with a sample fraction f other than 1 and N responses
\* surviving the filter, exactly round(f * N) entries are returned, each
\* selected index in 0..N-1.
C5_RoundedSampleCount ==
    (Returned /\ ~NoSampling) =>
        /\ Len(selected_idxs) = PyRound(sample_size, Len(non_empty_token_indexes))
        /\ \A k \in 1..Len(selected_idxs) :
              selected_idxs[k] \in 0..(Len(non_empty_token_indexes) - 1)

\* C5 amended: exactly int(f * N) entries are returned, f * N cut to its
\* integer part, each selected index in 0..N-1.
C5_TruncatedSampleCount ==
    (Returned /\ ~NoSampling) =>
        LET k == Len(selected_idxs)
            N == Len(non_empty_token_indexes)
        IN  /\ k * sample_size[2] <= sample_size[1] * N
            /\ sample_size[1] * N < (k + 1) * sample_size[2]
            /\ Len(text_corpus) = k
            /\ \A j \in 1..k : selected_idxs[j] \in 0..(N - 1)

\* 3/4 of two survivors is one entry, where rounding would give two
C5_Witness ==
    /\ Returned
    /\ sample_size = <<3, 4>>
    /\ Len(non_empty_token_indexes) = 2
    /\ Len(selected_idxs) = 1

\* None and False stand for no minimum
EffectiveMinimum(v) == IF v \in {PyNone, PyFalse} THEN 0 ELSE v.n

\* the number of responses whose lemmatized/stemmed tokens hold t
DocumentFrequency(t) ==
    Cardinality({j \in 1..Len(lemmatized_tokens) : t \in Range(lemmatized_tokens[j])})

\* the filter has just run
Filtered == pc = "select"

\* C9: the filter keeps a token occurrence exactly when the token's length is
\* >= min_word_len and the number of distinct responses holding the token is
\* >= min_freq; kept tokens keep their order; None or False act as 0.
C9_FilterByLengthAndDocumentFrequency ==
    Filtered =>
        /\ Len(min_len_freq_tokens) = Len(lemmatized_tokens)
        /\ \A i \in 1..Len(lemmatized_tokens) :
              min_len_freq_tokens[i] =
                  SelectSeq(lemmatized_tokens[i],
                            LAMBDA t :
                                /\ Len(t) >= EffectiveMinimum(min_word_len)
                                /\ DocumentFrequency(t) >= EffectiveMinimum(min_freq))

\* a token twice in one response and in no other is dropped by min_freq = 2
C9_Witness ==
    /\ Filtered
    /\ min_freq = PyInt(2)
    /\ \E i \in 1..Len(lemmatized_tokens) :
          \E a, b \in 1..Len(lemmatized_tokens[i]) :
              /\ a # b
              /\ lemmatized_tokens[i][a] = lemmatized_tokens[i][b]
              /\ DocumentFrequency(lemmatized_tokens[i][a]) = 1
              /\ min_len_freq_tokens[i] = <<>>

\* the bigram step has just run
AfterBigrams == pc = "lemmatize"

\* C10: after the bigram step every bigram detected in a response is in its
\* token list ahead of all the original unigram tokens, which are all still
\* there, in their order.
C10_BigramsAheadOfUnigrams ==
    AfterBigrams =>
        /\ Len(tokens_with_bigrams) = Len(TokenizedTexts(responses, input_language))
        /\ \A i \in 1..Len(tokens_with_bigrams) :
              LET original == TokenizedTexts(responses, input_language)[i]
                  tokens == tokens_with_bigrams[i]
                  n == Len(tokens) - Len(original)
                  found == {t \in Range(ApplyPhrases(bigrams, original)) :
                              HasUnderscore(t)}
              IN  /\ n >= 0
                  /\ SubSeq(tokens, n + 1, Len(tokens)) = original
                  /\ {tokens[j] : j \in 1..n} = found

\* a response whose two tokens were detected as a bigram
C10_Witness ==
    /\ pc = "lemmatize"
    /\ \E i \in 1..Len(tokens_with_bigrams) :
          tokens_with_bigrams[i] = <<"good_movie", "good", "movie">>

-----------------------------------------------------------------------------
(* clean_and_tokenize_texts called over the languages of the stemming       *)
(* fallback, lines 296-319                                                  *)

\* the language names a caller passes: the four abbreviations of lines
\* 302-309, a full name the stemmer knows, a name with a spaCy model and a
\* name no tool knows
StemLanguageNames == {"ar", "fi", "hu", "sv", "Finnish", "english", "klingon"}

\* the call with the default minimums of line 159
InitStem ==
    /\ IdleOrder /\ IdlePrompt /\ IdleLoad
    /\ pc = "tokenize"
    /\ exc = "none"
    /\ exc_at = "none"
    /\ responses \in Corpora
    /\ input_language \in {ResolveLanguage(Lower(name)) : name \in StemLanguageNames}
    /\ min_freq = PyInt(2)
    /\ min_word_len = PyInt(4)
    /\ sample_size \in SampleFractions
    /\ tokenized_texts = <<>>
    /\ origin = <<>>
    /\ bigrams = {}
    /\ tokens_with_bigrams = <<>>
    /\ nlp = "None"
    /\ lemmatized_tokens = <<>>
    /\ lemmatized_bound = FALSE
    /\ token_frequencies = <<>>
    /\ min_len_freq_tokens = <<>>
    /\ non_empty_token_indexes = <<>>
    /\ text_corpus = <<>>
    /\ clean_texts = <<>>
    /\ selected_idxs = <<>>

SpecStem == InitStem /\ [][Next]_vars

\* the abbreviations the stemming branch corrects
StemAbbreviations == {stem_abbr_dict[l] : l \in DOMAIN stem_abbr_dict}

\* the full language name an abbreviation stands for
FullName(abbr) == CHOOSE l \in DOMAIN stem_abbr_dict : stem_abbr_dict[l] = abbr

\* the stemming-or-passthrough branch has just run with no lemmatizer model:
\* it either went on to the filter or raised
AfterStemming ==
    /\ nlp = "None"
    /\ pc = "filter" \/ (pc = "raised" /\ exc_at = "stemmer")

\* every token of every token list stemmed
EveryTokenStemmed ==
    /\ Len(lemmatized_tokens) = Len(tokens_with_bigrams)
    /\ \A i \in 1..Len(tokens_with_bigrams) :
          /\ Len(lemmatized_tokens[i]) = Len(tokens_with_bigrams[i])
          /\ \A j \in 1..Len(tokens_with_bigrams[i]) :
                lemmatized_tokens[i][j] = stem(tokens_with_bigrams[i][j])

\* C11: when no lemmatizer model is available and the resolved language is
\* one of the abbreviations "ar", "fi", "hu", "sv", the abbreviation is mapped
\* to a full language name the stemmer supports, the stemmer is built without
\* raising and every token is stemmed; for any other resolved language with
\* no stemmer the tokens pass through unmodified.
C11_AbbreviationsStemmedOthersPassThrough ==
    AfterStemming =>
        /\ input_language \in StemAbbreviations =>
              /\ StemmerName(input_language) \in SnowballLanguages
              /\ exc = "none"
              /\ lemmatized_bound
              /\ EveryTokenStemmed
        /\ (input_language \notin StemAbbreviations
              /\ input_language \notin SnowballLanguages) =>
              /\ exc = "none"
              /\ lemmatized_bound
              /\ lemmatized_tokens = tokens_with_bigrams

\* what the branch does: "ar", "hu" and "sv" are mapped to their full names
\* and stemmed, a full name is stemmed, a language with no stemmer passes
\* through, and "fi" is mapped to "finish", which the stemmer refuses
StemmingBranchAsWritten ==
    AfterStemming =>
        /\ input_language \in StemAbbreviations \ {"fi"} =>
              /\ StemmerName(input_language) = FullName(input_language)
              /\ exc = "none" /\ lemmatized_bound /\ EveryTokenStemmed
        /\ input_language \in SnowballLanguages =>
              exc = "none" /\ lemmatized_bound /\ EveryTokenStemmed
        /\ (input_language \notin StemAbbreviations
              /\ input_language \notin SnowballLanguages) =>
              /\ exc = "none" /\ lemmatized_bound
              /\ lemmatized_tokens = tokens_with_bigrams
        /\ input_language = "fi" =>
              /\ StemmerName("fi") \notin SnowballLanguages
              /\ exc = "ValueError" /\ ~lemmatized_bound

\* tokens were stemmed under an abbreviation, and under "fi" the call raised
StemmedUnderAbbreviation ==
    /\ AfterStemming /\ pc = "filter"
    /\ input_language \in StemAbbreviations
    /\ \E i \in 1..Len(tokens_with_bigrams) :
          lemmatized_tokens[i] # tokens_with_bigrams[i]
RaisedUnderFinnish ==
    /\ AfterStemming /\ pc = "raised"
    /\ input_language = "fi"
    /\ tokens_with_bigrams # <<>>

-----------------------------------------------------------------------------
(* _order_by_pos, lines 508-571 *)

\* the largest number of keywords in one call
MaxKeywords == 3

\* the keywords a call may hold, each the sequence of its words
KeywordPool ==
    { <<"happy">>, <<"quickly">>, <<"customer">>, <<"berlin">>, <<"run">>,
      <<"wow">>, <<"customer", "service">> }

OutputLanguages == {"english", "en", "klingon"}

\* the tag the spaCy model gives the first token of a keyword
KeywordTag(word) ==
    CASE word = "happy" -> "ADJ"
      [] word = "quickly" -> "ADV"
      [] word \in {"customer", "service"} -> "NOUN"
      [] word = "berlin" -> "PROPN"
      [] word = "run" -> "VERB"
      [] OTHER -> "INTJ"

\* line 534: nlp(o)[0], the first token of the keyword: a spaCy Token with
\* its text and its tag
FirstToken(o) == [text |-> <<o[1]>>, pos_ |-> KeywordTag(o[1])]

\* line 537
pos_order == <<"NOUN", "PROPN", "ADJ", "ADV", "VERB">>

\* line 538: one list of tokens per tag of pos_order
OrderedByPos(tokens) ==
    [p \in 1..Len(pos_order) |->
        SelectSeq(tokens, LAMBDA o : o.pos_ = pos_order[p])]

\* line 539: str(o) of every token of every list
RECURSIVE FlatTexts(_)
FlatTexts(lists) ==
    IF lists = <<>> THEN <<>>
    ELSE MapSeq(Head(lists), LAMBDA o : o.text) \o FlatTexts(Tail(lists))

\* lines 541-544: the keywords that are the text of no ordered token
Other(outs, ordered) ==
    SelectSeq(outs, LAMBDA o : o \notin Range(FlatTexts(ordered)))

\* the entries of a result list are shown by their text: str(token) of a
\* Token, the keyword itself in the list of the others
Texts(tokens) == MapSeq(tokens, LAMBDA o : o.text)

\* lines 547-562: the dict in the order its keys are inserted
OutputsDict(ordered) ==
    << <<"Nouns:", Texts(ordered[1]) \o Texts(ordered[2])>>,
       <<"Adjectives:", Texts(ordered[3])>>,
       <<"Adverbs:", Texts(ordered[4])>>,
       <<"Verbs:", Texts(ordered[5])>>,
       <<"Other:", ordered[6]>> >>

\* lines 564-566
RemoveEmpty(d) == SelectSeq(d, LAMBDA kv : kv[2] # <<>>)

InitOrder ==
    /\ IdleTok /\ IdlePrompt /\ IdleLoad
    /\ pc = "order"
    /\ exc = "none"
    /\ exc_at = "none"
    /\ outputs \in UNION {[1..n -> KeywordPool] : n \in 0..MaxKeywords}
    /\ \E l \in OutputLanguages :
          output_language = IF l \in DOMAIN lem_abbr_dict THEN lem_abbr_dict[l] ELSE l
    /\ nlp_outputs = <<>>
    /\ ordered_outputs = <<>>
    /\ outputs_dict = <<>>

\* lines 530-534: the language has a model, it loads and tags the keywords
OrderTag ==
    /\ pc = "order"
    /\ output_language \in SpacyCodes
    /\ nlp_outputs' = MapSeq(outputs, FirstToken)
    /\ pc' = "buckets"
    /\ UNCHANGED <<exc, exc_at, outputs, output_language, ordered_outputs,
                   outputs_dict, tokArgs, tokLocals, promptVars, loadVars>>

\* line 533: the model of the language is not installed, spacy.load raises
OrderLoadFails ==
    /\ pc = "order"
    /\ output_language \in SpacyCodes
    /\ Raise("OSError", "spacy.load")
    /\ UNCHANGED <<orderVars, tokArgs, tokLocals, promptVars, loadVars>>

\* lines 570-571: no model for the language, the keywords are returned as is
OrderPassthrough ==
    /\ pc = "order"
    /\ output_language \notin SpacyCodes
    /\ outputs_dict' = outputs
    /\ pc' = "returned_list"
    /\ UNCHANGED <<exc, exc_at, outputs, output_language, nlp_outputs,
                   ordered_outputs, tokArgs, tokLocals, promptVars, loadVars>>

\* lines 537-545
OrderBuckets ==
    /\ pc = "buckets"
    /\ ordered_outputs' =
          Append(OrderedByPos(nlp_outputs), Other(outputs, OrderedByPos(nlp_outputs)))
    /\ pc' = "dict"
    /\ UNCHANGED <<exc, exc_at, outputs, output_language, nlp_outputs,
                   outputs_dict, tokArgs, tokLocals, promptVars, loadVars>>

\* lines 547-568
OrderDict ==
    /\ pc = "dict"
    /\ outputs_dict' = RemoveEmpty(OutputsDict(ordered_outputs))
    /\ pc' = "returned_dict"
    /\ UNCHANGED <<exc, exc_at, outputs, output_language, nlp_outputs,
                   ordered_outputs, tokArgs, tokLocals, promptVars, loadVars>>

NextOrder ==
    \/ OrderTag
    \/ OrderLoadFails
    \/ OrderPassthrough
    \/ OrderBuckets
    \/ OrderDict

SpecOrder == InitOrder /\ [][NextOrder]_vars

\* the key of the bucket of a tag
KeyOfTag(tag) ==
    CASE tag \in {"NOUN", "PROPN"} -> "Nouns:"
      [] tag = "ADJ" -> "Adjectives:"
      [] tag = "ADV" -> "Adverbs:"
      [] tag = "VERB" -> "Verbs:"
      [] OTHER -> "Other:"

KeyOrder == <<"Nouns:", "Adjectives:", "Adverbs:", "Verbs:", "Other:">>

\* how many entries of the sequence s are x
Count(s, x) == Cardinality({i \in 1..Len(s) : s[i] = x})

\* the keywords whose first token's tag belongs to the bucket of key
KeywordsOf(key) == SelectSeq(outputs, LAMBDA o : KeyOfTag(KeywordTag(o[1])) = key)

\* C6: for a language with a tagging model every input keyword is in exactly
\* one bucket, the one of its first token's tag; the keys are in the fixed
\* order, empty buckets are left out, and the buckets hold the input keywords
\* and nothing else, for single-token and multi-token keywords.
C6_EveryKeywordInItsBucket ==
    pc = "returned_dict" =>
        /\ MapSeq(outputs_dict, LAMBDA kv : kv[1]) =
              SelectSeq(KeyOrder, LAMBDA key : KeywordsOf(key) # <<>>)
        /\ \A b \in 1..Len(outputs_dict) :
              \A o \in KeywordPool \cup Range(outputs_dict[b][2]) :
                  Count(outputs_dict[b][2], o) = Count(KeywordsOf(outputs_dict[b][1]), o)

-----------------------------------------------------------------------------
(* Strings as sequences of characters, for the functions that look inside them *)

\* `sub in s`
Contains(s, sub) ==
    \E i \in 1..(Len(s) - Len(sub) + 1) : SubSeq(s, i, i + Len(sub) - 1) = sub

\* s.replace(c, "") for a character c
WithoutChar(s, c) == SelectSeq(s, LAMBDA x : x # c)

\* s.split(" ")
RECURSIVE SplitAtSpaces(_)
SplitAtSpaces(s) ==
    IF " " \notin Range(s) THEN <<s>>
    ELSE LET i == CHOOSE k \in 1..Len(s) :
                     s[k] = " " /\ \A j \in 1..(k - 1) : s[j] # " "
         IN  <<SubSeq(s, 1, i - 1)>> \o SplitAtSpaces(SubSeq(s, i + 1, Len(s)))

\* str(n) of a natural number
RECURSIVE Str(_)
Str(n) ==
    LET digit == <<"0", "1", "2", "3", "4", "5", "6", "7", "8", "9">>[(n % 10) + 1]
    IN  IF n < 10 THEN <<digit>> ELSE Str(n \div 10) \o <<digit>>

-----------------------------------------------------------------------------
(* prompt_for_ignore_words, lines 574-610 *)

\* the most answers to the yes/no question that are followed
MaxAnswers == 3

\* the longest list of words passed in
MaxIgnoreWords == 1

\* the words a caller passes in and the lines a user types after "y"
ArgWords == { <<"x">>, <<"i", "t", "'", "s">> }
InputLines ==
    { <<>>, <<"a">>, <<"a", ",", " ", "b">>, <<"a", ",", "b">>, <<"a", "'", "s">> }

\* the answers that are neither "y" nor "n"
InvalidAnswers == {"", "yes"}

\* lines 578-581
InitialIgnoreWords(arg) ==
    IF arg.py = "None" THEN <<>>
    ELSE MapSeq(arg.list, LAMBDA w : WithoutChar(w, "'"))

\* lines 590-593: the line without its commas and apostrophes
WithoutCommas(line) == SelectSeq(line, LAMBDA char : char # "," /\ char # "'")

\* lines 590-598
NewWordsToIgnore(line) ==
    IF " " \in Range(WithoutCommas(line))
    THEN SplitAtSpaces(WithoutCommas(line))
    ELSE <<WithoutCommas(line)>>

\* line 600: ignore_words += new_words_to_ignore
\* (a variant that assigns the new words instead of adding them)
AddedWordsOnly(words, new) == new
AddedWords(words, new) == words \o new

InitPrompt ==
    /\ IdleTok /\ IdleOrder /\ IdleLoad
    /\ pc = "prompt"
    /\ exc = "none"
    /\ exc_at = "none"
    /\ ignore_words_arg \in
          {[py |-> "None", list |-> <<>>]} \cup
          {[py |-> "list", list |-> l] :
              l \in UNION {[1..n -> ArgWords] : n \in 0..MaxIgnoreWords}}
    /\ ignore_words = InitialIgnoreWords(ignore_words_arg)
    /\ words_added = FALSE
    /\ more_words = "True"
    /\ answers = <<>>
    /\ entered = <<>>
    /\ printed = <<>>

\* lines 586-602: the answer is "y" and a line of words follows
PromptYes ==
    /\ pc = "prompt"
    /\ Len(answers) < MaxAnswers
    /\ \E line \in InputLines :
          /\ entered' = line
          /\ ignore_words' = AddedWords(ignore_words, NewWordsToIgnore(line))
    /\ answers' = Append(answers, "y")
    /\ words_added' = TRUE
    /\ more_words' = "False"
    /\ pc' = "returned"
    /\ UNCHANGED <<exc, exc_at, ignore_words_arg, printed,
                   tokArgs, tokLocals, orderVars, loadVars>>

\* lines 586, 604-605: the answer is "n"
PromptNo ==
    /\ pc = "prompt"
    /\ Len(answers) < MaxAnswers
    /\ answers' = Append(answers, "n")
    /\ more_words' = "False"
    /\ pc' = "returned"
    /\ UNCHANGED <<exc, exc_at, ignore_words_arg, ignore_words, words_added,
                   entered, printed, tokArgs, tokLocals, orderVars, loadVars>>

\* lines 586, 607-608: any other answer
PromptInvalid ==
    /\ pc = "prompt"
    /\ Len(answers) < MaxAnswers
    /\ \E a \in InvalidAnswers :
          /\ answers' = Append(answers, a)
          /\ more_words' = a
    /\ printed' = Append(printed, "Invalid input")
    /\ UNCHANGED <<pc, exc, exc_at, ignore_words_arg, ignore_words, words_added,
                   entered, tokArgs, tokLocals, orderVars, loadVars>>

NextPrompt ==
    \/ PromptYes
    \/ PromptNo
    \/ PromptInvalid

SpecPrompt == InitPrompt /\ [][NextPrompt]_vars

LastAnswer == answers[Len(answers)]

\* C7 as stated: the prompt goes on after a "y" round and the function
\* returns only after an "n" answer.
C7_ReturnsOnlyAfterNo ==
    pc = "returned" => LastAnswer = "n"

\* the words joined by single spaces
RECURSIVE JoinWithSpaces(_)
JoinWithSpaces(words) ==
    IF Len(words) = 0 THEN <<>>
    ELSE IF Len(words) = 1 THEN words[1]
    ELSE words[1] \o <<" ">> \o JoinWithSpaces(Tail(words))

\* C7 amended: an answer other than "y" or "n" prints an error and asks again
\* with the word list and the flag unchanged; the function returns after the
\* first "y" round, with the initial words followed by the words of that one
\* round and the flag true, or after an "n" answer, with the initial words
\* and the flag false.
C7_ReturnsAfterFirstYesOrNo ==
    LET initial == InitialIgnoreWords(ignore_words_arg)
        new == SubSeq(ignore_words, Len(initial) + 1, Len(ignore_words))
    IN  /\ pc = "prompt" =>
              /\ \A i \in 1..Len(answers) : answers[i] \notin {"y", "n"}
              /\ Len(printed) = Len(answers)
              /\ ignore_words = initial
              /\ words_added = FALSE
        /\ pc = "returned" =>
              /\ LastAnswer \in {"y", "n"}
              /\ \A i \in 1..(Len(answers) - 1) : answers[i] \notin {"y", "n"}
              /\ Len(printed) = Len(answers) - 1
              /\ SubSeq(ignore_words, 1, Len(initial)) = initial
              /\ words_added = (LastAnswer = "y")
              /\ LastAnswer = "n" => new = <<>>
              /\ LastAnswer = "y" =>
                    /\ new # <<>>
                    /\ JoinWithSpaces(new) = WithoutCommas(entered)
                    /\ \A i \in 1..Len(new) : " " \notin Range(new[i])

\* a "y" round after an invalid answer, adding two words to a passed-in word
C7_Witness ==
    /\ pc = "returned"
    /\ LastAnswer = "y"
    /\ Len(answers) = 2
    /\ printed = <<"Invalid input">>
    /\ Len(ignore_words) = 3

-----------------------------------------------------------------------------
(* load_data, lines 39-105 *)

\* the most columns a table has beyond the known ones
MaxExtraColumns == 2

\* lines 61-80
KnownColumnNames ==
    <<
      <<"u", "s", "e", "r", "_", "i", "d">>,
      <<"v", "a", "l", "_", "b", "e", "n", "e", "f", "i", "t">>,
      <<"u", "n", "v", "a", "l", "_", "b", "e", "n", "e", "f", "i", "t">>,
      <<"v", "a", "l", "_", "p", "e", "r", "s", "o", "n", "a", "l">>,
      <<"u", "n", "v", "a", "l", "_", "p", "e", "r", "s", "o", "n", "a", "l">>,
      <<"m", "o", "s", "t", "_", "i", "m", "p", "o", "r", "t", "a", "n", "t">>,
      <<"m", "i", "s", "s", "i", "o", "n", "_", "d", "e", "s", "c", "r", "i", "p", "t", "i", "o", "n">>,
      <<"h", "i", "g", "h", "e", "r", "_", "p", "u", "r", "p", "o", "s", "e">>,
      <<"e", "x", "p", "e", "n", "s", "i", "v", "e", "_", "o", "k">>,
      <<"e", "x", "p", "e", "n", "s", "i", "v", "e", "_", "n", "o", "t", "_", "o", "k">>,
      <<"b", "a", "r", "g", "a", "i", "n", "_", "o", "k">>,
      <<"b", "a", "r", "g", "a", "i", "n", "_", "n", "o", "t", "_", "o", "k">>,
      <<"l", "i", "k", "e", "l", "i", "h", "o", "o", "d", "_", "e", "x", "p", "e", "n", "s", "i", "v", "e">>,
      <<"l", "i", "k", "e", "l", "i", "h", "o", "o", "d", "_", "b", "a", "r", "g", "a", "i", "n">>,
      <<"c", "o", "n", "t", "a", "c", "t", "_", "d", "u", "r", "a", "c", "t", "i", "o", "n">>,
      <<"s", "t", "a", "r", "t", "_", "t", "i", "m", "e">>,
      <<"s", "u", "b", "m", "i", "t", "_", "t", "i", "m", "e">>,
      <<"n", "e", "t", "w", "o", "r", "k", "_", "i", "d">> >>

\* the header of column i (1-based) of the data that is passed in or read
Header(i) == <<"Q">> \o Str(i)
Headers(n) == [i \in 1..n |-> Header(i)]

Tables ==
    {Headers(n) : n \in (Len(KnownColumnNames) - 1)..(Len(KnownColumnNames) + MaxExtraColumns)}

\* the argument: a DataFrame, or a path (a str) with the columns of its file
DataArguments ==
    {[type |-> "DataFrame", columns |-> t, suffix |-> ""] : t \in Tables} \cup
    {[type |-> "str", columns |-> t, suffix |-> x] :
        t \in Tables, x \in {"xlsx", "csv", "txt"}}

\* line 84
ExtraColumnName(index) ==
    <<"e", "x", "t", "r", "a", "_", "c", "o", "l", "_">> \o Str(index)

InitLoad ==
    /\ IdleTok /\ IdleOrder /\ IdlePrompt
    /\ pc = "load"
    /\ exc = "none"
    /\ exc_at = "none"
    /\ data \in DataArguments
    /\ df_bound = FALSE
    /\ df_responses = [type |-> "none", columns |-> <<>>]
    /\ column_names = <<>>
    /\ extra_index = 0
    /\ col_index = 0

\* lines 53-82: df_responses is assigned only inside `if type(data) == str`
LoadRead ==
    /\ pc = "load"
    /\ IF data.type = "str"
       THEN /\ df_bound' = TRUE
            /\ df_responses' =
                  IF data.suffix \in {"xlsx", "csv"}
                  THEN [type |-> "DataFrame", columns |-> data.columns]
                  ELSE [type |-> "str", columns |-> <<>>]
       ELSE UNCHANGED <<df_bound, df_responses>>
    /\ column_names' = KnownColumnNames
    /\ extra_index' = 0
    /\ pc' = "extra"
    /\ UNCHANGED <<exc, exc_at, data, col_index,
                   tokArgs, tokLocals, orderVars, promptVars>>

\* lines 55, 57: the file cannot be read
LoadReadFails ==
    /\ pc = "load"
    /\ data.type = "str"
    /\ data.suffix \in {"xlsx", "csv"}
    /\ Raise("FileNotFoundError", "read")
    /\ UNCHANGED <<loadVars, tokArgs, tokLocals, orderVars, promptVars>>

\* lines 83-85, one test of the loop condition and one pass of its body
LoadExtraColumn ==
    /\ pc = "extra"
    /\ IF ~df_bound
       THEN /\ Raise("UnboundLocalError", "line 83")
            /\ UNCHANGED <<column_names, extra_index>>
       ELSE IF df_responses.type = "str"
       THEN /\ Raise("AttributeError", "line 83")
            /\ UNCHANGED <<column_names, extra_index>>
       ELSE IF Len(column_names) < Len(df_responses.columns)
       THEN /\ column_names' = Append(column_names, ExtraColumnName(extra_index))
            /\ extra_index' = extra_index + 1
            /\ UNCHANGED <<pc, exc, exc_at>>
       ELSE /\ pc' = "rename"
            /\ UNCHANGED <<exc, exc_at, column_names, extra_index>>
    /\ UNCHANGED <<data, df_bound, df_responses, col_index,
                   tokArgs, tokLocals, orderVars, promptVars>>

\* line 87: pandas refuses a list of names of another length
LoadRename ==
    /\ pc = "rename"
    /\ IF Len(column_names) = Len(df_responses.columns)
       THEN /\ df_responses' = [df_responses EXCEPT !.columns = column_names]
            /\ pc' = "others"
            /\ UNCHANGED <<exc, exc_at>>
       ELSE /\ Raise("ValueError", "line 87")
            /\ UNCHANGED df_responses
    /\ UNCHANGED <<data, df_bound, column_names, extra_index, col_index,
                   tokArgs, tokLocals, orderVars, promptVars>>

\* lines 89-103, one column of the loop over the names assigned at line 87:
\* a column whose name holds "other" is dropped (after its strings were
\* copied to the column before it, which changes no column name)
LoadOtherColumn ==
    /\ pc = "others"
    /\ IF col_index < Len(column_names)
       THEN /\ col_index' = col_index + 1
            /\ df_responses' =
                  IF Contains(column_names[col_index + 1], <<"o", "t", "h", "e", "r">>)
                  THEN [df_responses EXCEPT !.columns =
                           SelectSeq(@, LAMBDA c : c # column_names[col_index + 1])]
                  ELSE df_responses
            /\ UNCHANGED pc
       ELSE /\ pc' = "returned"
            /\ UNCHANGED <<col_index, df_responses>>
    /\ UNCHANGED <<exc, exc_at, data, df_bound, column_names, extra_index,
                   tokArgs, tokLocals, orderVars, promptVars>>

NextLoad ==
    \/ LoadRead
    \/ LoadReadFails
    \/ LoadExtraColumn
    \/ LoadRename
    \/ LoadOtherColumn

SpecLoad == InitLoad /\ [][NextLoad]_vars

\* the fixed schema names followed by sequentially named extra columns
SchemaNames(n) ==
    [i \in 1..n |->
        IF i <= Len(KnownColumnNames) THEN KnownColumnNames[i]
        ELSE ExtraColumnName(i - Len(KnownColumnNames) - 1)]

\* C8: load_data accepts an in-memory table with at least the known columns
\* without raising, and returns a table, passed in or read from an .xlsx or
\* .csv path, under the fixed schema names and sequentially named extras.
C8_AcceptsTableOrPath ==
    /\ (data.type = "DataFrame" /\ Len(data.columns) >= Len(KnownColumnNames)) =>
            pc # "raised"
    /\ pc = "returned" => df_responses.columns = SchemaNames(Len(data.columns))

=============================================================================
